---- MODULE Spec2Model ----
(***************************************************************************)
(* The ReAct loop controller of the shopping assistant (react_agent.py,    *)
(* react_selfcritic.py) and the tool functions it drives (tools.py).       *)
(*                                                                         *)
(* Text is a sequence of lexical tokens.  A token is a fixed run of        *)
(* characters: a maximal run of word characters (\w+), one punctuation     *)
(* character, one whitespace character, or one literal piece of a format   *)
(* string.  No two word tokens are adjacent in a text, so a match of \w+   *)
(* that must be followed by a non-word character is exactly one token.     *)
(***************************************************************************)
EXTENDS Integers, Sequences, FiniteSets, TLC

VARIABLES
    pc,                   \* position in react_loop: "llm", "exec", "append", "done"; "off" outside a run
    query,                \* the query react_loop was called with
    iter,                 \* 1-based index of the current pass of `for _ in range(MAX_ITERATIONS)`
    conversation_context, \* the transcript string
    llm_response,         \* last value returned by call_llm
    tool_calls,           \* parse_tool_calls(llm_response) of the current round
    idx,                  \* index in tool_calls of the next call to execute
    observations,         \* the round's accumulated observation text
    ret,                  \* the value react_loop returned
    term,                 \* how the run ended: "none", "final", "budget", "error"
    now,                  \* the wall clock (day number) as last read by datetime.now()
    hist,                 \* history of the current run (what was sent, answered, executed, read)
    prev,                 \* history of the previous, completed run
    text,                 \* parser harness: input of parse_tool_calls
    segs,                 \* parser harness: the spans the input was written from
    parsed,               \* parser harness: output of parse_tool_calls
    probe,                \* tool harness: the call made of a tool function
    outcome               \* tool harness: what the call came to

vars == <<pc, query, iter, conversation_context, llm_response, tool_calls, idx,
          observations, ret, term, now, hist, prev, text, segs, parsed, probe, outcome>>

loopVars == <<pc, query, iter, conversation_context, llm_response, tool_calls, idx,
              observations, ret, term, now, hist, prev>>

parseVars == <<text, segs, parsed>>

toolVars == <<probe, outcome>>

----------------------------------------------------------------------------
(* Lexical classes *)

WS == {" ", "\n"}

Punct == {"[", "]", "{", "}", "(", ")", ",", ":", "\"", "'", "-", "."}

\* literal pieces of the f-strings of react_loop and execute_tools
Literals == {"User Query: ", "\nAssistant: ", "\nObservations: ", "\nTool: ",
             "\nParameters: ", "\nObservation: ", "Unknown tool: ",
             "Error executing ", "Error: Failed to get LLM response"}

IsWord(t) == t \notin WS /\ t \notin Punct /\ t \notin Literals

\* int(...) / float(...) of a run of digits
NumVal == [t \in {"0", "1", "2", "3", "4", "5", "7", "8", "15", "40", "70", "12345"} |->
             CASE t = "0" -> 0 [] t = "1" -> 1 [] t = "2" -> 2 [] t = "3" -> 3
               [] t = "4" -> 4 [] t = "5" -> 5 [] t = "7" -> 7 [] t = "8" -> 8
               [] t = "15" -> 15 [] t = "40" -> 40 [] t = "70" -> 70
               [] t = "12345" -> 12345]

\* F at the value of e: what a local variable assigned once holds
Let(e, F(_)) == CHOOSE y \in {F(x) : x \in {e}} : TRUE

----------------------------------------------------------------------------
(* json.loads on a token sequence.  A value is a record of one shape:      *)
(*   t: "str" | "int" | "float" | "bool" | "null" | "list" | "dict"         *)
(*   s: the characters of a string, n: a number, b: a boolean,             *)
(*   keys, items: the keys (dict) and the values (dict, list) in order.    *)

VStr(s)  == [t |-> "str",  s |-> s,    n |-> 0, b |-> FALSE, keys |-> <<>>, items |-> <<>>]
VInt(n)  == [t |-> "int",  s |-> <<>>, n |-> n, b |-> FALSE, keys |-> <<>>, items |-> <<>>]
\* a float, held in hundredths
VFloat(h) == [t |-> "float", s |-> <<>>, n |-> h, b |-> FALSE, keys |-> <<>>, items |-> <<>>]
VBool(b) == [t |-> "bool", s |-> <<>>, n |-> 0, b |-> b,     keys |-> <<>>, items |-> <<>>]
VNull    == [t |-> "null", s |-> <<>>, n |-> 0, b |-> FALSE, keys |-> <<>>, items |-> <<>>]
VList(l) == [t |-> "list", s |-> <<>>, n |-> 0, b |-> FALSE, keys |-> <<>>, items |-> l]
\* a tuple, which a caller in Python can pass and json.loads never gives
VTuple(l) == [t |-> "tuple", s |-> <<>>, n |-> 0, b |-> FALSE, keys |-> <<>>, items |-> l]
VDict(k, l) == [t |-> "dict", s |-> <<>>, n |-> 0, b |-> FALSE, keys |-> k, items |-> l]

\* d[key] = val of a Python dict: a repeated key keeps its place and takes the new value
DictSet(d, key, val) ==
    IF \E i \in 1..Len(d.keys) : d.keys[i] = key
    THEN LET i == CHOOSE j \in 1..Len(d.keys) : d.keys[j] = key
         IN  VDict(d.keys, [d.items EXCEPT ![i] = val])
    ELSE VDict(Append(d.keys, key), Append(d.items, val))

HasKey(d, key) == \E i \in 1..Len(d.keys) : d.keys[i] = key

DictGet(d, key) == d.items[CHOOSE i \in 1..Len(d.keys) : d.keys[i] = key]

JFail == [ok |-> FALSE, pos |-> 0, val |-> VNull]

JOk(v, p) == [ok |-> TRUE, pos |-> p, val |-> v]

RECURSIVE SkipWs(_, _)
SkipWs(s, i) == IF i <= Len(s) /\ s[i] \in WS THEN SkipWs(s, i + 1) ELSE i

\* index of the quote closing the string whose content starts at i; 0 when the
\* string is unterminated or holds a raw control character (strict decoding)
RECURSIVE StrEnd(_, _)
StrEnd(s, i) ==
    IF i > Len(s) \/ s[i] = "\n" THEN 0
    ELSE IF s[i] = "\"" THEN i
    ELSE StrEnd(s, i + 1)

ParseString(s, i) ==
    LET e == StrEnd(s, i + 1)
    IN  IF e = 0 THEN JFail ELSE JOk(VStr(SubSeq(s, i + 1, e - 1)), e + 1)

RECURSIVE ParseValue(_, _)
RECURSIVE ParseMembers(_, _, _)
RECURSIVE ParseElements(_, _, _)

\* members of an object, the first one starting at k
ParseMembers(s, k, acc) ==
    IF k > Len(s) \/ s[k] # "\"" THEN JFail
    ELSE LET key == ParseString(s, k)
         IN  IF ~key.ok THEN JFail
             ELSE LET c == SkipWs(s, key.pos)
                  IN  IF c > Len(s) \/ s[c] # ":" THEN JFail
                      ELSE LET v == ParseValue(s, SkipWs(s, c + 1))
                           IN  IF ~v.ok THEN JFail
                               ELSE LET d    == SkipWs(s, v.pos)
                                        acc2 == DictSet(acc, key.val.s, v.val)
                                    IN  IF d > Len(s) THEN JFail
                                        ELSE IF s[d] = "}" THEN JOk(acc2, d + 1)
                                        ELSE IF s[d] = "," THEN ParseMembers(s, SkipWs(s, d + 1), acc2)
                                        ELSE JFail

\* elements of an array, the first one starting at k
ParseElements(s, k, acc) ==
    LET v == ParseValue(s, k)
    IN  IF ~v.ok THEN JFail
        ELSE LET d    == SkipWs(s, v.pos)
                 acc2 == Append(acc, v.val)
             IN  IF d > Len(s) THEN JFail
                 ELSE IF s[d] = "]" THEN JOk(VList(acc2), d + 1)
                 ELSE IF s[d] = "," THEN ParseElements(s, SkipWs(s, d + 1), acc2)
                 ELSE JFail

ParseValue(s, i) ==
    IF i > Len(s) THEN JFail
    ELSE IF s[i] = "\"" THEN ParseString(s, i)
    ELSE IF s[i] = "{" THEN
             LET k == SkipWs(s, i + 1)
             IN  IF k <= Len(s) /\ s[k] = "}" THEN JOk(VDict(<<>>, <<>>), k + 1)
                 ELSE ParseMembers(s, k, VDict(<<>>, <<>>))
    ELSE IF s[i] = "[" THEN
             LET k == SkipWs(s, i + 1)
             IN  IF k <= Len(s) /\ s[k] = "]" THEN JOk(VList(<<>>), k + 1)
                 ELSE ParseElements(s, k, <<>>)
    ELSE IF s[i] \in DOMAIN NumVal THEN JOk(VInt(NumVal[s[i]]), i + 1)
    ELSE IF s[i] = "true" THEN JOk(VBool(TRUE), i + 1)
    ELSE IF s[i] = "false" THEN JOk(VBool(FALSE), i + 1)
    ELSE IF s[i] = "null" THEN JOk(VNull, i + 1)
    ELSE JFail

\* json.loads(s): ok = FALSE stands for json.JSONDecodeError
json_loads(s) ==
    LET r == ParseValue(s, SkipWs(s, 1))
    IN  IF r.ok /\ SkipWs(s, r.pos) = Len(s) + 1 THEN r ELSE JFail

----------------------------------------------------------------------------
(* re.findall(r"\[\[CALL (\w+),\s*(\{.*?\})\]\]", text, re.DOTALL) *)

NoMatch == [ok |-> FALSE, name |-> "", params |-> <<>>, end |-> 0]

\* .*? followed by \}\]\] : the first e >= from where "}" is directly followed by "]]"
RECURSIVE LazyEnd(_, _)
LazyEnd(s, e) ==
    IF e + 2 > Len(s) THEN 0
    ELSE IF s[e] = "}" /\ s[e + 1] = "]" /\ s[e + 2] = "]" THEN e
    ELSE LazyEnd(s, e + 1)

\* end of the object literal: \{.*?\} up to the closing \]\]
ObjectEnd(s, j) == LazyEnd(s, j + 1)

\* the pattern anchored at position i
MatchAt(s, i) ==
    IF /\ i + 5 <= Len(s)
       /\ s[i] = "[" /\ s[i + 1] = "[" /\ s[i + 2] = "CALL" /\ s[i + 3] = " "
       /\ IsWord(s[i + 4]) /\ s[i + 5] = ","
    THEN LET j == SkipWs(s, i + 6)
         IN  IF j <= Len(s) /\ s[j] = "{"
             THEN LET e == ObjectEnd(s, j)
                  IN  IF e = 0 THEN NoMatch
                      ELSE [ok |-> TRUE, name |-> s[i + 4], params |-> SubSeq(s, j, e),
                            end |-> e + 2]
             ELSE NoMatch
    ELSE NoMatch

\* the non-overlapping matches, left to right
RECURSIVE FindAll(_, _)
FindAll(s, i) ==
    IF i > Len(s) THEN <<>>
    ELSE LET m == MatchAt(s, i)
         IN  IF m.ok THEN <<m>> \o FindAll(s, m.end + 1) ELSE FindAll(s, i + 1)

\* a faulty variant: the first literal that does not decode ends the scan
DecodeUntilFailure(ms) ==
    LET bad == {i \in 1..Len(ms) : ~json_loads(ms[i].params).ok}
        n == IF bad = {} THEN Len(ms) ELSE (CHOOSE i \in bad : \A j \in bad : i <= j) - 1
    IN  [i \in 1..n |-> [name |-> ms[i].name, params |-> json_loads(ms[i].params).val]]

RECURSIVE DecodeMatches(_)
DecodeMatches(ms) ==
    IF ms = <<>> THEN <<>>
    ELSE LET r == json_loads(Head(ms).params)
         IN  IF r.ok
             THEN <<[name |-> Head(ms).name, params |-> r.val]>> \o DecodeMatches(Tail(ms))
             ELSE DecodeMatches(Tail(ms))

parse_tool_calls(t) == DecodeMatches(FindAll(t, 1))

----------------------------------------------------------------------------
(* The texts the model is given: written from spans whose kind is known.   *)

Q(w) == <<"\"", w, "\"">>

KV(k, v) == Q(k) \o <<":", " ">> \o v

Span(name, body) == <<"[", "[", "CALL", " ", name, ",", " ">> \o body \o <<"]", "]">>

SegText(k) ==
    CASE k = "prose" -> <<"Thought", ":", " ", "done", ".", "\n">>
      [] k = "nl" -> <<"\n">>
      [] k = "search" ->
           Span("eccomerce_search_aggregtor",
                <<"{">> \o KV("name", Q("sneakers")) \o <<",", " ">>
                        \o KV("color", Q("white")) \o <<"}">>)
      [] k = "ship" ->
           Span("shipping_time_estimator",
                <<"{">> \o KV("product_name", <<"\"", "White", " ", "Sneakers", "\"">>)
                        \o <<",", " ">> \o KV("delivery_target", Q("friday")) \o <<"}">>)
      [] k = "multiline" ->
           <<"[", "[", "CALL", " ", "return_policy_checker", ",", "\n", "{", "\n">>
           \o KV("store_name", Q("SiteB")) \o <<"\n", "}", "]", "]">>
      [] k = "nested" ->
           Span("eccomerce_search_aggregtor",
                <<"{">> \o KV("name", Q("dress")) \o <<",", " ">>
                        \o KV("filter", <<"{">> \o KV("size", Q("M")) \o <<"}">>) \o <<"}">>)
      [] k = "tricky" ->
           Span("discount_promo_checker",
                <<"{">> \o KV("product_name", <<"\"", "}", "]", "]", "\"">>) \o <<"}">>)
      [] k = "unclosed" ->
           Span("eccomerce_search_aggregtor", <<"{">> \o KV("name", Q("skirt")))
      [] k = "tuple" ->
           Span("eccomerce_search_aggregtor",
                <<"{">> \o KV("name", Q("skirt")) \o <<",", " ">>
                        \o KV("price_range", <<"(", "0", ",", " ", "40", ")">>) \o <<"}">>)
      [] k = "unknown" ->
           Span("price_tracker", <<"{">> \o KV("name", Q("sneakers")) \o <<"}">>)
      [] k = "missing" ->
           Span("shipping_time_estimator",
                <<"{">> \o KV("delivery_target", Q("friday")) \o <<"}">>)
      [] k = "badtype" ->
           Span("eccomerce_search_aggregtor", <<"{">> \o KV("name", <<"8">>) \o <<"}">>)

\* the call a well-formed span asks for: its name and the mapping its literal denotes
SegCall(k) ==
    CASE k = "search" ->
           [name |-> "eccomerce_search_aggregtor",
            params |-> VDict(<<<<"name">>, <<"color">>>>,
                             <<VStr(<<"sneakers">>), VStr(<<"white">>)>>)]
      [] k = "ship" ->
           [name |-> "shipping_time_estimator",
            params |-> VDict(<<<<"product_name">>, <<"delivery_target">>>>,
                             <<VStr(<<"White", " ", "Sneakers">>), VStr(<<"friday">>)>>)]
      [] k = "multiline" ->
           [name |-> "return_policy_checker",
            params |-> VDict(<<<<"store_name">>>>, <<VStr(<<"SiteB">>)>>)]
      [] k = "nested" ->
           [name |-> "eccomerce_search_aggregtor",
            params |-> VDict(<<<<"name">>, <<"filter">>>>,
                             <<VStr(<<"dress">>),
                               VDict(<<<<"size">>>>, <<VStr(<<"M">>)>>)>>)]
      [] k = "tricky" ->
           [name |-> "discount_promo_checker",
            params |-> VDict(<<<<"product_name">>>>, <<VStr(<<"}", "]", "]">>)>>)]
      [] k = "unknown" ->
           [name |-> "price_tracker",
            params |-> VDict(<<<<"name">>>>, <<VStr(<<"sneakers">>)>>)]
      [] k = "missing" ->
           [name |-> "shipping_time_estimator",
            params |-> VDict(<<<<"delivery_target">>>>, <<VStr(<<"friday">>)>>)]
      [] k = "badtype" ->
           [name |-> "eccomerce_search_aggregtor",
            params |-> VDict(<<<<"name">>>>, <<VInt(8)>>)]

WellFormedKinds == {"search", "ship", "multiline", "nested", "tricky", "unknown",
                    "missing", "badtype"}

MalformedKinds == {"unclosed", "tuple"}

ProseKinds == {"prose", "nl"}

SegKinds == WellFormedKinds \cup MalformedKinds \cup ProseKinds

RECURSIVE Flatten(_)
Flatten(ks) == IF ks = <<>> THEN <<>> ELSE SegText(Head(ks)) \o Flatten(Tail(ks))

\* the calls of the well-formed spans of a text, in text order
RECURSIVE WellFormedCalls(_)
WellFormedCalls(ks) ==
    IF ks = <<>> THEN <<>>
    ELSE IF Head(ks) \in WellFormedKinds
         THEN <<SegCall(Head(ks))>> \o WellFormedCalls(Tail(ks))
         ELSE WellFormedCalls(Tail(ks))


----------------------------------------------------------------------------
(* Python values as text: json.dumps, repr, str; str.lower, str.upper.     *)

LowerPairs ==
    {<<"Floral", "floral">>, <<"Skirt", "skirt">>, <<"White", "white">>,
     <<"Sneakers", "sneakers">>, <<"Casual", "casual">>, <<"Denim", "denim">>,
     <<"Jacket", "jacket">>, <<"Cocktail", "cocktail">>, <<"Dress", "dress">>,
     <<"Summer", "summer">>, <<"Classic", "classic">>, <<"Vintage", "vintage">>,
     <<"Sport", "sport">>, <<"Canvas", "canvas">>, <<"SiteA", "sitea">>,
     <<"SiteB", "siteb">>, <<"SiteC", "sitec">>, <<"S", "s">>, <<"M", "m">>,
     <<"Friday", "friday">>, <<"Under", "under">>, <<"Monday", "monday">>,
     <<"Tuesday", "tuesday">>, <<"Wednesday", "wednesday">>, <<"Thursday", "thursday">>,
     <<"Saturday", "saturday">>, <<"Sunday", "sunday">>, <<"FRIDAY", "friday">>}

LowerTok(t) ==
    IF \E p \in LowerPairs : p[1] = t THEN (CHOOSE p \in LowerPairs : p[1] = t)[2] ELSE t

\* upper case matters only against the sizes "S", "M", "8": a word that is no size
\* in either case is left as it is, its upper case being no size either
UpperTok(t) == IF t = "s" THEN "S" ELSE IF t = "m" THEN "M" ELSE t

Lower(s) == [i \in 1..Len(s) |-> LowerTok(s[i])]

Upper(s) == [i \in 1..Len(s) |-> UpperTok(s[i])]

\* the digits of a float held in hundredths: 4599 -> 45.99, 6500 -> 65.0, 3650 -> 36.5
FloatToks(h) ==
    LET fr == h % 100
    IN  <<ToString(h \div 100), ".",
          IF fr % 10 = 0 THEN ToString(fr \div 10)
          ELSE IF fr < 10 THEN "0" \o ToString(fr) ELSE ToString(fr)>>

RECURSIVE Dumps(_)
RECURSIVE DumpsItems(_, _)
\* json.dumps(v)
Dumps(v) ==
    CASE v.t = "str" -> <<"\"">> \o v.s \o <<"\"">>
      [] v.t = "int" -> <<ToString(v.n)>>
      [] v.t = "float" -> FloatToks(v.n)
      [] v.t = "bool" -> IF v.b THEN <<"true">> ELSE <<"false">>
      [] v.t = "null" -> <<"null">>
      [] v.t \in {"list", "tuple"} -> <<"[">> \o DumpsItems(v, 1) \o <<"]">>
      [] v.t = "dict" -> <<"{">> \o DumpsItems(v, 1) \o <<"}">>

DumpsItems(v, i) ==
    IF i > Len(v.items) THEN <<>>
    ELSE (IF i > 1 THEN <<",", " ">> ELSE <<>>)
         \o (IF v.t = "dict" THEN <<"\"">> \o v.keys[i] \o <<"\"", ":", " ">> ELSE <<>>)
         \o Dumps(v.items[i]) \o DumpsItems(v, i + 1)

RECURSIVE PyRepr(_)
RECURSIVE ReprItems(_, _)
\* repr(v), which is what an f-string gives for a dict
PyRepr(v) ==
    CASE v.t = "str" -> <<"'">> \o v.s \o <<"'">>
      [] v.t = "int" -> <<ToString(v.n)>>
      [] v.t = "float" -> FloatToks(v.n)
      [] v.t = "bool" -> IF v.b THEN <<"True">> ELSE <<"False">>
      [] v.t = "null" -> <<"None">>
      [] v.t = "list" -> <<"[">> \o ReprItems(v, 1) \o <<"]">>
      [] v.t = "tuple" -> <<"(">> \o ReprItems(v, 1)
                          \o (IF Len(v.items) = 1 THEN <<",">> ELSE <<>>) \o <<")">>
      [] v.t = "dict" -> <<"{">> \o ReprItems(v, 1) \o <<"}">>

ReprItems(v, i) ==
    IF i > Len(v.items) THEN <<>>
    ELSE (IF i > 1 THEN <<",", " ">> ELSE <<>>)
         \o (IF v.t = "dict" THEN <<"'">> \o v.keys[i] \o <<"'", ":", " ">> ELSE <<>>)
         \o PyRepr(v.items[i]) \o ReprItems(v, i + 1)

\* str(v)
PyStr(v) == IF v.t = "str" THEN v.s ELSE PyRepr(v)

\* bool(v)
Truthy(v) ==
    CASE v.t = "str" -> v.s # <<>>
      [] v.t \in {"int", "float"} -> v.n # 0
      [] v.t = "bool" -> v.b
      [] v.t = "null" -> FALSE
      [] v.t \in {"list", "tuple", "dict"} -> v.items # <<>>

TypeName(v) == IF v.t = "null" THEN "NoneType" ELSE v.t

\* what a tool call comes to: a returned text, or an exception with its str(e);
\* clock tells whether datetime.now() was read
Returned(out) == [raised |-> FALSE, out |-> out, clock |-> FALSE]

Raised(msg) == [raised |-> TRUE, out |-> msg, clock |-> FALSE]

\* AttributeError of v.lower() on a value that is no str
NoLower(v) == Raised(<<"'", TypeName(v), "'", " object has no attribute ", "'", "lower", "'">>)

\* TypeError of using a list or a dict as a dict key
Unhashable(v) == Raised(<<"unhashable type: ", "'", TypeName(v), "'">>)

Str(s) == VStr(s)

\* a dict literal with one-word keys
Rec(ks, vs) == VDict([i \in 1..Len(ks) |-> <<ks[i]>>], vs)

Field(d, k) == DictGet(d, <<k>>)


----------------------------------------------------------------------------
(* tools.py: the catalog and eccomerce_search_aggregtor *)

Product(name, color, price, size, store, delivery) ==
    Rec(<<"name", "color", "price", "size", "in_stock", "store", "delivery">>,
        <<Str(name), Str(<<color>>), price, Str(<<size>>), VBool(TRUE), Str(<<store>>),
          Str(<<delivery, "-", "day">>)>>)

results ==
    <<Product(<<"Floral", " ", "Skirt">>, "multi", VInt(35), "S", "SiteA", "3"),
      Product(<<"White", " ", "Sneakers">>, "white", VInt(65), "8", "SiteB", "2"),
      Product(<<"Casual", " ", "Denim", " ", "Jacket">>, "blue", VInt(80), "M", "SiteA", "2"),
      Product(<<"Cocktail", " ", "Dress">>, "red", VInt(120), "M", "SiteB", "4"),
      Product(<<"Summer", " ", "Floral", " ", "Dress">>, "yellow", VInt(75), "S", "SiteC", "3"),
      Product(<<"Classic", " ", "White", " ", "Sneakers">>, "white", VInt(55), "8", "SiteA", "5"),
      Product(<<"Vintage", " ", "Denim", " ", "Jacket">>, "blue", VInt(75), "M", "SiteC", "2"),
      Product(<<"Sport", " ", "White", " ", "Sneakers">>, "white", VFloat(6500), "8", "SiteB", "2"),
      Product(<<"Canvas", " ", "White", " ", "Sneakers">>, "white", VFloat(4599), "8", "SiteC", "3")>>

\* float(v) of a number, in hundredths
Hundredths(v) == IF v.t = "float" THEN v.n ELSE IF v.t = "bool" THEN (IF v.b THEN 100 ELSE 0)
                 ELSE v.n * 100

\* s.split(): the runs of non-whitespace
RECURSIVE Split(_, _)
Split(s, cur) ==
    IF s = <<>> THEN (IF cur = <<>> THEN <<>> ELSE <<cur>>)
    ELSE IF Head(s) \in WS
         THEN (IF cur = <<>> THEN <<>> ELSE <<cur>>) \o Split(Tail(s), <<>>)
         ELSE Split(Tail(s), Append(cur, Head(s)))

\* the pairs <<a, b>> of the vocabulary's words where a is a proper substring of b
ProperSubstrings == {<<"sneaker", "sneakers">>, <<"site", "sitea">>, <<"site", "siteb">>,
                     <<"site", "sitec">>}

\* a in b, for two words
SubWord(a, b) == a = b \/ <<a, b>> \in ProperSubstrings

\* needle in hay, for two strings: the needle's tokens lie in a row in hay, a
\* one-word needle also inside a word
InStr(needle, hay) ==
    \/ needle = <<>>
    \/ Len(needle) = 1 /\ \E i \in 1..Len(hay) : SubWord(needle[1], hay[i])
    \/ \E i \in 0..(Len(hay) - Len(needle)) :
          \A j \in 1..Len(needle) : hay[i + j] = needle[j]

\* any(term in ' '.join(product_terms) for term in search_terms)
NameMatches(name, product) ==
    Let(<<Split(Lower(name), <<>>), Lower(Field(product, "name").s)>>, LAMBDA x :
        \E i \in 1..Len(x[1]) : InStr(x[1][i], x[2]))

\* the digit and "." characters of a token, as a number and its count of digits
\* (''.join(c for c in query if c.isdigit() or c == '.'))
IsDigits(t) == t \in DOMAIN NumVal

DigitCount(t) == CASE t \in {"0", "1", "2", "3", "4", "5", "7", "8"} -> 1
                   [] t \in {"15", "40", "70"} -> 2
                   [] t = "12345" -> 5

RECURSIVE Pow10(_)
Pow10(k) == IF k = 0 THEN 1 ELSE 10 * Pow10(k - 1)

\* float() of the digits and dots of s, in hundredths; ok = FALSE is its ValueError
RECURSIVE ToFloat(_, _, _, _)
ToFloat(s, whole, frac, fdigits) ==
    \* fdigits = -1 before the ".", else the count of digits after it
    IF s = <<>>
    THEN IF whole = -1 /\ fdigits <= 0 THEN [ok |-> FALSE, h |-> 0]
         ELSE [ok |-> TRUE,
               h |-> (IF whole = -1 THEN 0 ELSE whole) * 100
                     + (IF fdigits <= 0 THEN 0
                        ELSE IF fdigits = 1 THEN frac * 10
                        ELSE frac \div Pow10(fdigits - 2))]
    ELSE IF Head(s) = "."
         THEN IF fdigits >= 0 THEN [ok |-> FALSE, h |-> 0]
              ELSE ToFloat(Tail(s), whole, 0, 0)
    ELSE IF IsDigits(Head(s))
         THEN IF fdigits = -1
              THEN ToFloat(Tail(s),
                           (IF whole = -1 THEN 0 ELSE whole) * Pow10(DigitCount(Head(s)))
                           + NumVal[Head(s)], frac, fdigits)
              ELSE ToFloat(Tail(s), whole, frac * Pow10(DigitCount(Head(s))) + NumVal[Head(s)],
                           fdigits + DigitCount(Head(s)))
    ELSE ToFloat(Tail(s), whole, frac, fdigits)

NoRange == [kind |-> "none", lo |-> 0, hi |-> 0, out |-> <<>>, items |-> <<>>]

Range(lo, hi) == [kind |-> "range", lo |-> lo, hi |-> hi, out |-> <<>>, items |-> <<>>]

\* the numbers of a "between" query: float(n) of each run of digits, dots and nothing else
RECURSIVE Numbers(_)
Numbers(ws) ==
    IF ws = <<>> THEN [ok |-> TRUE, hs |-> <<>>]
    ELSE LET f == ToFloat(Head(ws), -1, 0, -1)
             r == Numbers(Tail(ws))
         IN  IF ~f.ok \/ ~r.ok THEN [ok |-> FALSE, hs |-> <<>>]
             ELSE [ok |-> TRUE, hs |-> <<f.h>> \o r.hs]

\* the tokens of s that are digits, dots or spaces, split at the spaces
DigitWords(s) ==
    Split(SelectSeq(s, LAMBDA t : IsDigits(t) \/ t = "." \/ t = " "), <<>>)

SeqMin(hs) == CHOOSE x \in {hs[i] : i \in 1..Len(hs)} : \A i \in 1..Len(hs) : x <= hs[i]

SeqMax(hs) == CHOOSE x \in {hs[i] : i \in 1..Len(hs)} : \A i \in 1..Len(hs) : x >= hs[i]

\* parse_price_range(price_query); kind "raise" carries the exception
parse_price_range(v) ==
    IF v.t = "tuple" THEN [kind |-> "tuple", lo |-> 0, hi |-> 0, out |-> <<>>, items |-> v.items]
    ELSE IF v.t \in {"int", "float", "bool"} THEN Range(0, Hundredths(v))
    ELSE IF v.t # "str"
    THEN [kind |-> "raise", lo |-> 0, hi |-> 0, out |-> NoLower(v).out, items |-> <<>>]
    ELSE LET q == Lower(v.s)
         IN  IF InStr(<<"under">>, q) \/ InStr(<<"less", " ", "than">>, q)
             THEN LET f == ToFloat(q, -1, 0, -1)
                  IN  IF f.ok THEN Range(0, f.h) ELSE NoRange
             ELSE IF InStr(<<"between">>, q)
             THEN LET ns == Numbers(DigitWords(q))
                  IN  IF ns.ok /\ Len(ns.hs) >= 2 THEN Range(SeqMin(ns.hs), SeqMax(ns.hs))
                      ELSE NoRange
             ELSE NoRange

Arg(a, k) == IF HasKey(a, <<k>>) THEN Field(a, k) ELSE VNull

\* one pass of the loop over the catalog: "keep" (appended), "skip" (continue) or "raise"
Keep == [r |-> "keep", out |-> <<>>]

Skip == [r |-> "skip", out |-> <<>>]

CheckRaise(x) == [r |-> "raise", out |-> x.out]

CheckInStock(product, a) ==
    LET in_stock == Arg(a, "in_stock")
    IN  IF in_stock.t # "null"
           /\ ~(\/ in_stock.t = "bool" /\ in_stock.b
                \/ in_stock.t = "int" /\ in_stock.n = 1
                \/ in_stock.t = "float" /\ in_stock.n = 100)
        THEN Skip ELSE Keep

CheckStore(product, a) ==
    LET store == Arg(a, "store")
    IN  IF ~Truthy(store) THEN Keep
        ELSE IF store.t # "str" THEN CheckRaise(NoLower(store))
        ELSE IF Lower(store.s) # Lower(Field(product, "store").s) THEN Skip
        ELSE Keep

\* float(v) of one end of a range given as a tuple; ok = FALSE is its exception
FloatOf(v) ==
    IF v.t \in {"int", "float", "bool"} THEN [ok |-> TRUE, h |-> Hundredths(v), out |-> <<>>]
    ELSE IF v.t = "str" /\ Len(v.s) = 1 /\ IsDigits(v.s[1])
    THEN [ok |-> TRUE, h |-> NumVal[v.s[1]] * 100, out |-> <<>>]
    ELSE IF v.t = "str"
    THEN [ok |-> FALSE, h |-> 0,
          out |-> <<"could not convert string to float: ">> \o PyRepr(v)]
    ELSE [ok |-> FALSE, h |-> 0,
          out |-> <<"float() argument must be a string or a real number, not ", "'",
                    TypeName(v), "'">>]

\* a faulty variant: the lower end of the range is not compared
LowerEndIgnored(lo, price) == TRUE

\* line 87: float(min_price) <= float(product["price"])
LowerEndHolds(lo, price) == lo <= price

\* lines 86-88 for a tuple: the unpacking, then the chained comparison, which stops at
\* its first false link
CheckTuple(price, items) ==
    IF Len(items) < 2
    THEN [r |-> "raise",
          out |-> <<"not enough values to unpack (expected 2, got ", ToString(Len(items)),
                    ")">>]
    ELSE IF Len(items) > 2
    THEN [r |-> "raise", out |-> <<"too many values to unpack (expected 2)">>]
    ELSE IF ~FloatOf(items[1]).ok THEN [r |-> "raise", out |-> FloatOf(items[1]).out]
    ELSE IF ~LowerEndHolds(FloatOf(items[1]).h, price) THEN Skip
    ELSE IF ~FloatOf(items[2]).ok THEN [r |-> "raise", out |-> FloatOf(items[2]).out]
    ELSE IF ~(price <= FloatOf(items[2]).h) THEN Skip
    ELSE Keep

CheckPrice(product, a) ==
    LET price_range == Arg(a, "price_range")
    IN  IF ~Truthy(price_range) THEN Keep
        ELSE Let(parse_price_range(price_range), LAMBDA parsed_range :
                 IF parsed_range.kind = "raise" THEN [r |-> "raise", out |-> parsed_range.out]
                 ELSE IF parsed_range.kind = "none" THEN Skip
                 ELSE IF parsed_range.kind = "tuple"
                 THEN IF parsed_range.items = <<>> THEN Skip
                      ELSE CheckTuple(Hundredths(Field(product, "price")), parsed_range.items)
                 ELSE IF ~(/\ parsed_range.lo <= Hundredths(Field(product, "price"))
                           /\ Hundredths(Field(product, "price")) <= parsed_range.hi)
                 THEN Skip
                 ELSE Keep)

CheckSize(product, a) ==
    LET size == Arg(a, "size")
    IN  IF Truthy(size) /\ Upper(PyStr(size)) # Upper(Field(product, "size").s) THEN Skip
        ELSE Keep

CheckColor(product, a) ==
    LET color == Arg(a, "color")
    IN  IF ~Truthy(color) THEN Keep
        ELSE IF color.t # "str" THEN CheckRaise(NoLower(color))
        ELSE IF Lower(color.s) # Lower(Field(product, "color").s) THEN Skip
        ELSE Keep

CheckName(product, a) ==
    LET name == Arg(a, "name")
    IN  IF ~Truthy(name) THEN Keep
        ELSE IF name.t # "str" THEN CheckRaise(NoLower(name))
        ELSE IF ~NameMatches(name.s, product) THEN Skip
        ELSE Keep

\* the checks of one pass in the order of the code, of which the first that does not
\* pass decides
CheckProduct(product, a) ==
    IF CheckName(product, a).r # "keep" THEN CheckName(product, a)
    ELSE IF CheckColor(product, a).r # "keep" THEN CheckColor(product, a)
    ELSE IF CheckSize(product, a).r # "keep" THEN CheckSize(product, a)
    ELSE IF CheckPrice(product, a).r # "keep" THEN CheckPrice(product, a)
    ELSE IF CheckStore(product, a).r # "keep" THEN CheckStore(product, a)
    ELSE CheckInStock(product, a)

\* the loop over the catalog from product i on: the filtered list, or the exception
RECURSIVE Filter(_, _, _)
Filter(a, i, filtered) ==
    IF i > Len(results) THEN [raised |-> FALSE, list |-> filtered, out |-> <<>>]
    ELSE Let(CheckProduct(results[i], a), LAMBDA c :
             IF c.r = "raise" THEN [raised |-> TRUE, list |-> <<>>, out |-> c.out]
             ELSE Let(IF c.r = "keep" THEN Append(filtered, results[i]) ELSE filtered,
                      LAMBDA kept : Filter(a, i + 1, kept)))

\* eccomerce_search_aggregtor(**a)
eccomerce_search_aggregtor(a) ==
    Let(Filter(a, 1, <<>>), LAMBDA f :
        IF f.raised THEN Raised(f.out) ELSE Returned(Dumps(VList(f.list))))


----------------------------------------------------------------------------
(* tools.py: shipping_time_estimator.  The clock is [d, tod]: d the day     *)
(* number from 1 January 2026 (a Thursday), tod 0 at midnight sharp and 1  *)
(* at any later time of the day.                                           *)

DaysInMonth(y, m) ==
    IF m = 2 THEN (IF y % 4 = 0 /\ (y % 100 # 0 \/ y % 400 = 0) THEN 29 ELSE 28)
    ELSE IF m \in {4, 6, 9, 11} THEN 30 ELSE 31

RECURSIVE Walk(_, _, _)
Walk(y, m, rest) ==
    IF rest < DaysInMonth(y, m) THEN [year |-> y, month |-> m, day |-> rest + 1]
    ELSE IF m = 12 THEN Walk(y + 1, 1, rest - DaysInMonth(y, m))
    ELSE Walk(y, m + 1, rest - DaysInMonth(y, m))

\* the calendar date of day number d
DateOf(d) == Walk(2026, 1, d)

RECURSIVE DaysBefore(_, _)
\* the day number of the first day of month m of year y
DaysBefore(y, m) ==
    IF y = 2026 /\ m = 1 THEN 0
    ELSE IF m = 1 THEN DaysBefore(y - 1, 12) + 31
    ELSE DaysBefore(y, m - 1) + DaysInMonth(y, m - 1)

\* date.weekday(): Monday is 0
WeekdayOf(d) == (d + 3) % 7

days == <<"monday", "tuesday", "wednesday", "thursday", "friday", "saturday", "sunday">>

DayNames == <<"Monday", "Tuesday", "Wednesday", "Thursday", "Friday", "Saturday", "Sunday">>

MonthNames == <<"January", "February", "March", "April", "May", "June", "July", "August",
                "September", "October", "November", "December">>

\* strftime("%A, %B %d")
Strftime(d) ==
    LET dt == DateOf(d)
    IN  <<DayNames[WeekdayOf(d) + 1], ",", " ", MonthNames[dt.month], " ",
          IF dt.day < 10 THEN "0" \o ToString(dt.day) ELSE ToString(dt.day)>>

\* the words that hold one of 'st', 'nd', 'rd', 'th'
OrdinalMarked == {"monday", "thursday", "saturday", "sunday", "1st", "2nd", "3rd", "15th",
                  "31st", "month", "standard"}

\* the digits of a word: their number and their count
WordDigits(t) ==
    CASE t \in DOMAIN NumVal -> <<NumVal[t], DigitCount(t)>>
      [] t \in {"1st"} -> <<1, 1>>
      [] t \in {"2nd"} -> <<2, 1>>
      [] t \in {"3rd"} -> <<3, 1>>
      [] t \in {"15th"} -> <<15, 2>>
      [] t \in {"31st"} -> <<31, 2>>
      [] OTHER -> <<0, 0>>

\* int(''.join(c for c in target if c.isdigit())); ok = FALSE is its ValueError
RECURSIVE DigitsInt(_, _, _)
DigitsInt(s, acc, seen) ==
    IF s = <<>> THEN [ok |-> seen, n |-> acc]
    ELSE LET wd == WordDigits(Head(s))
         IN  DigitsInt(Tail(s), acc * Pow10(wd[2]) + wd[1], seen \/ wd[2] > 0)

\* calculate_delivery_feasibility(days_needed, target) with datetime.now() = today
calculate_delivery_feasibility(days_needed, target0, today) ==
    LET target == Lower(target0)
        dt     == DateOf(today.d)
    IN  IF \E i \in 1..Len(target) : target[i] \in OrdinalMarked
        THEN LET td == DigitsInt(target, 0, FALSE)
                 target_day == td.n
                 rolls == target_day < dt.day
                 current_month == IF ~rolls THEN dt.month ELSE IF dt.month = 12 THEN 1
                                  ELSE dt.month + 1
                 current_year == IF rolls /\ dt.month = 12 THEN dt.year + 1 ELSE dt.year
             IN  IF ~td.ok \/ target_day < 1
                    \/ target_day > DaysInMonth(current_year, current_month)
                 THEN Rec(<<"error">>, <<Str(<<"Invalid date specified">>)>>)
                 ELSE LET target_date   == DaysBefore(current_year, current_month)
                                           + target_day - 1
                          delivery_date == today.d + days_needed
                      IN  Rec(<<"can_deliver", "estimated_delivery", "requested_date">>,
                              <<VBool(delivery_date < target_date
                                      \/ (delivery_date = target_date /\ today.tod = 0)),
                                Str(Strftime(delivery_date)), Str(Strftime(target_date))>>)
        ELSE IF \E i \in 1..7 : target = <<days[i]>>
        THEN LET current_day_idx == WeekdayOf(today.d)
                 target_day_idx  == (CHOOSE i \in 1..7 : target = <<days[i]>>) - 1
                 diff == target_day_idx - current_day_idx
                 days_until_target == IF diff <= 0 THEN diff + 7 ELSE diff
                 delivery_date == today.d + days_needed
                 target_date   == today.d + days_until_target
             IN  Rec(<<"can_deliver", "estimated_delivery", "requested_date">>,
                     <<VBool(delivery_date <= target_date),
                       Str(Strftime(delivery_date)), Str(Strftime(target_date))>>)
        ELSE Rec(<<"error">>, <<Str(<<"Invalid delivery target specified">>)>>)

Entry(d, cost) ==
    Rec(<<"estimated_delivery", "cost">>, <<Str(<<d, "-", "day">>), VFloat(cost)>>)

Stores(a, b, c) == Rec(<<"SiteA", "SiteB", "SiteC">>, <<a, b, c>>)

Zips(a, b, c) == Rec(<<"12345", "67890", "default">>, <<a, b, c>>)

shipping_info ==
    VDict(<<<<"Summer", " ", "Floral", " ", "Skirt">>, <<"White", " ", "Sneakers">>,
            <<"Casual", " ", "Denim", " ", "Jacket">>, <<"Cocktail", " ", "Dress">>,
            <<"Summer", " ", "Floral", " ", "Dress">>,
            <<"Classic", " ", "White", " ", "Sneakers">>,
            <<"Vintage", " ", "Denim", " ", "Jacket">>,
            <<"Sport", " ", "White", " ", "Sneakers">>,
            <<"Canvas", " ", "White", " ", "Sneakers">>>>,
          <<Stores(Zips(Entry("2", 499), Entry("3", 599), Entry("3", 499)),
                   Zips(Entry("3", 599), Entry("4", 699), Entry("4", 599)),
                   Zips(Entry("2", 499), Entry("3", 599), Entry("3", 499))),
            Stores(Entry("3", 599), Entry("2", 499), Entry("3", 499)),
            Stores(Entry("2", 599), Entry("3", 699), Entry("3", 599)),
            Stores(Entry("3", 699), Entry("4", 799), Entry("3", 699)),
            Stores(Entry("3", 499), Entry("3", 599), Entry("3", 499)),
            Stores(Entry("5", 499), Entry("3", 599), Entry("4", 499)),
            Stores(Entry("3", 599), Entry("3", 699), Entry("2", 599)),
            Stores(Entry("3", 599), Entry("2", 499), Entry("3", 499)),
            Stores(Entry("4", 499), Entry("3", 599), Entry("3", 499))>>)

\* d.get(key, default) for a str key
GetOr(d, key, default) == IF HasKey(d, key) THEN DictGet(d, key) ELSE default

EmptyDict == VDict(<<>>, <<>>)

ErrorJson(msg) == Dumps(Rec(<<"error">>, <<Str(msg)>>))

\* a faulty variant: an entry without ZIP codes is itself the store-level default
ZipLookupStoreDefault(store_shipping, zip_code) ==
    IF zip_code.t = "str" /\ HasKey(store_shipping, zip_code.s)
    THEN DictGet(store_shipping, zip_code.s)
    ELSE IF HasKey(store_shipping, <<"default">>) THEN DictGet(store_shipping, <<"default">>)
    ELSE store_shipping

\* store_shipping.get(zip_code, store_shipping.get("default", {}))
ZipLookup(store_shipping, zip_code) ==
    IF zip_code.t = "str" /\ HasKey(store_shipping, zip_code.s)
    THEN DictGet(store_shipping, zip_code.s)
    ELSE GetOr(store_shipping, <<"default">>, EmptyDict)

\* lines 254-263, for the shipping entry found
Estimate(zip_shipping, delivery_target, zip_code, today) ==
    LET delivery_days == NumVal[Field(zip_shipping, "estimated_delivery").s[1]]
    IN  IF ~Truthy(delivery_target) THEN Returned(Dumps(zip_shipping))
        ELSE IF delivery_target.t # "str" THEN NoLower(delivery_target)
        ELSE Let(calculate_delivery_feasibility(delivery_days, delivery_target.s, today),
                 LAMBDA delivery_check :
                     LET RECURSIVE Update(_, _)
                         Update(d, i) ==
                             IF i > Len(delivery_check.keys) THEN d
                             ELSE Let(DictSet(d, delivery_check.keys[i],
                                              delivery_check.items[i]),
                                      LAMBDA e : Update(e, i + 1))
                     IN  Let(Update(zip_shipping, 1), LAMBDA updated :
                             [raised |-> FALSE,
                              out |-> Dumps(IF Truthy(zip_code)
                                            THEN DictSet(updated, <<"zip_code">>, zip_code)
                                            ELSE updated),
                              clock |-> TRUE]))

\* lines 245-263, for the product found
ShippingOf(product, delivery_target, zip_code, today) ==
    Let(GetOr(GetOr(shipping_info, Field(product, "name").s, EmptyDict),
              Field(product, "store").s, EmptyDict),
        LAMBDA store_shipping :
            IF ~Truthy(store_shipping)
            THEN Returned(ErrorJson(<<"Shipping information not available">>))
            ELSE IF zip_code.t \in {"list", "dict"} THEN Unhashable(zip_code)
            ELSE Let(ZipLookup(store_shipping, zip_code), LAMBDA zip_shipping :
                     IF ~Truthy(zip_shipping)
                     THEN Returned(ErrorJson(<<"Shipping not available to ZIP code ">>
                                             \o PyStr(zip_code)))
                     ELSE IF zip_shipping.t = "str"
                     THEN Raised(<<"string indices must be integers, not 'str'">>)
                     ELSE IF zip_shipping.t # "dict"
                     THEN Raised(<<"'", TypeName(zip_shipping), "'",
                                   " object is not subscriptable">>)
                     ELSE Estimate(zip_shipping, delivery_target, zip_code, today)))

\* shipping_time_estimator(**a) with datetime.now() = today
shipping_time_estimator(a, today) ==
    Let(Rec(<<"name">>, <<Field(a, "product_name")>>), LAMBDA q :
        Let(Filter(q, 1, <<>>), LAMBDA found :
            IF found.raised THEN Raised(found.out)
            ELSE IF found.list = <<>> THEN Returned(ErrorJson(<<"Product not found">>))
            ELSE Let(<<found.list[1], Arg(a, "delivery_target"), Arg(a, "zip_code")>>,
                     LAMBDA x : ShippingOf(x[1], x[2], x[3], today))))


----------------------------------------------------------------------------
(* tools.py: discount_promo_checker, return_policy_checker,                *)
(* competitor_price_comparison                                             *)

Codes(ks, ns) == Rec(ks, [i \in 1..Len(ns) |-> VInt(ns[i])])

discounts ==
    VDict(<<<<"Floral", " ", "Skirt">>, <<"White", " ", "Sneakers">>,
            <<"Casual", " ", "Denim", " ", "Jacket">>, <<"Cocktail", " ", "Dress">>,
            <<"Summer", " ", "Floral", " ", "Dress">>,
            <<"Classic", " ", "White", " ", "Sneakers">>,
            <<"Vintage", " ", "Denim", " ", "Jacket">>,
            <<"Sport", " ", "White", " ", "Sneakers">>,
            <<"Canvas", " ", "White", " ", "Sneakers">>>>,
          <<Codes(<<"SPRING10", "SAVE20", "NEW15">>, <<10, 20, 15>>),
            Codes(<<"SHOES15", "NEW10">>, <<15, 10>>),
            Codes(<<"DENIM10", "SAVE20">>, <<10, 20>>),
            Codes(<<"PARTY25", "NEW15">>, <<25, 15>>),
            Codes(<<"SUMMER", "NEW10">>, <<15, 10>>),
            Codes(<<"SHOES15", "NEW10">>, <<15, 10>>),
            Codes(<<"DENIM10", "SAVE20">>, <<10, 20>>),
            Codes(<<"SHOES15", "NEW10">>, <<15, 10>>),
            Codes(<<"SHOES10", "NEW10">>, <<10, 10>>)>>)

\* discount_promo_checker(**a)
discount_promo_checker(a) ==
    LET product_name == Field(a, "product_name")
    IN  IF product_name.t \in {"list", "dict"} THEN Unhashable(product_name)
        ELSE IF product_name.t = "str"
        THEN Returned(Dumps(GetOr(discounts, product_name.s, EmptyDict)))
        ELSE Returned(Dumps(EmptyDict))

Policy(window, free, conditions, processing) ==
    Rec(<<"window", "free_returns", "conditions", "processing_time">>,
        <<Str(window), VBool(free), Str(conditions), Str(processing)>>)

policies ==
    Rec(<<"SiteA", "SiteB", "SiteC">>,
        <<Policy(<<"30", " ", "days">>, TRUE, <<"Must have original tags">>,
                 <<"3", "-", "5", " ", "business days">>),
          Policy(<<"14", " ", "days">>, FALSE, <<"Return shipping fee applies">>,
                 <<"5", "-", "7", " ", "business days">>),
          Policy(<<"45", " ", "days">>, TRUE, <<"Items must be unworn with tags attached">>,
                 <<"2", "-", "4", " ", "business days">>)>>)

StoreNotFound == Rec(<<"error">>, <<Str(<<"Store not found">>)>>)

\* the first product of ps whose name holds store_name, 0 when none does
RECURSIVE FirstNamed(_, _, _)
FirstNamed(ps, i, needle) ==
    IF i > Len(ps) THEN 0
    ELSE IF InStr(needle, Lower(Field(ps[i], "name").s)) THEN i
    ELSE FirstNamed(ps, i + 1, needle)

\* return_policy_checker(**a)
return_policy_checker(a) ==
    Let(Field(a, "store_name"), LAMBDA store_name :
        IF store_name.t \in {"list", "dict"} THEN Unhashable(store_name)
        ELSE IF store_name.t = "str" /\ HasKey(policies, store_name.s)
        THEN Returned(Dumps(DictGet(policies, store_name.s)))
        ELSE Let(Rec(<<"name">>, <<store_name>>), LAMBDA q :
             Let(Filter(q, 1, <<>>), LAMBDA found :
                 IF found.raised THEN Raised(found.out)
                 ELSE IF found.list = <<>> THEN Returned(Dumps(StoreNotFound))
                 ELSE IF store_name.t # "str" THEN NoLower(store_name)
                 ELSE Let(Lower(store_name.s), LAMBDA needle :
                      Let(FirstNamed(found.list, 1, needle), LAMBDA i :
                          IF i = 0 THEN Returned(Dumps(StoreNotFound))
                          ELSE Returned(Dumps(GetOr(policies,
                                                    Field(found.list[i], "store").s,
                                                    StoreNotFound))))))))

Offer(store, price) ==
    Rec(<<"store", "price", "in_stock">>, <<Str(<<store>>), VFloat(price), VBool(TRUE)>>)

Offers(a, b, c) == VList(<<Offer("SiteA", a), Offer("SiteB", b), Offer("SiteC", c)>>)

comparisons ==
    VDict(<<<<"Floral", " ", "Skirt">>, <<"White", " ", "Sneakers">>,
            <<"Casual", " ", "Denim", " ", "Jacket">>, <<"Cocktail", " ", "Dress">>,
            <<"Summer", " ", "Floral", " ", "Dress">>,
            <<"Classic", " ", "White", " ", "Sneakers">>,
            <<"Vintage", " ", "Denim", " ", "Jacket">>,
            <<"Sport", " ", "White", " ", "Sneakers">>,
            <<"Canvas", " ", "White", " ", "Sneakers">>>>,
          <<Offers(3500, 3799, 3650), Offers(6399, 6500, 6799), Offers(8000, 8599, 8299),
            Offers(11899, 12000, 12299), Offers(7299, 7799, 7500), Offers(5500, 5799, 5650),
            Offers(7799, 7500, 7500), Offers(6799, 6500, 6650), Offers(4799, 4650, 4599)>>)

\* competitor_price_comparison(**a)
competitor_price_comparison(a) ==
    LET product_name == Field(a, "product_name")
    IN  IF product_name.t # "str" THEN NoLower(product_name)
        ELSE IF \E i \in 1..Len(comparisons.keys) :
                   Lower(comparisons.keys[i]) = Lower(product_name.s)
        THEN Returned(Dumps(comparisons.items[
                 CHOOSE i \in 1..Len(comparisons.keys) :
                     /\ Lower(comparisons.keys[i]) = Lower(product_name.s)
                     /\ \A j \in 1..(i - 1) :
                            Lower(comparisons.keys[j]) # Lower(product_name.s)]))
        ELSE Returned(Dumps(VList(<<>>)))

----------------------------------------------------------------------------
(* react_agent.py: execute_tools *)

\* the parameters of each registered tool: all of them, and the required ones
Signature(tool_name) ==
    CASE tool_name = "eccomerce_search_aggregtor" ->
           [all |-> <<"name", "color", "price_range", "size", "in_stock", "store", "delivery">>,
            required |-> <<>>]
      [] tool_name = "shipping_time_estimator" ->
           [all |-> <<"product_name", "delivery_target", "zip_code">>,
            required |-> <<"product_name">>]
      [] tool_name = "discount_promo_checker" ->
           [all |-> <<"product_name">>, required |-> <<"product_name">>]
      [] tool_name = "return_policy_checker" ->
           [all |-> <<"store_name">>, required |-> <<"store_name">>]
      [] tool_name = "competitor_price_comparison" ->
           [all |-> <<"product_name">>, required |-> <<"product_name">>]

tool_mapping == {"eccomerce_search_aggregtor", "shipping_time_estimator",
                 "discount_promo_checker", "return_policy_checker",
                 "competitor_price_comparison"}

InSeq(x, sq) == \E i \in 1..Len(sq) : sq[i] = x

\* tool_mapping[tool_name](**params): the TypeError of the call, or the tool's outcome
CallTool(tool_name, params, today) ==
    LET sig == Signature(tool_name)
        unexpected == {i \in 1..Len(params.keys) :
                          ~(Len(params.keys[i]) = 1 /\ InSeq(params.keys[i][1], sig.all))}
        missing == {i \in 1..Len(sig.required) : ~HasKey(params, <<sig.required[i]>>)}
    IN  IF unexpected # {}
        THEN Raised(<<tool_name, "() got an unexpected keyword argument ", "'">>
                    \o params.keys[CHOOSE i \in unexpected : \A j \in unexpected : i <= j]
                    \o <<"'">>)
        ELSE IF missing # {}
        THEN Raised(<<tool_name, "() missing ", ToString(Cardinality(missing)),
                      " required positional argument: ", "'",
                      sig.required[CHOOSE i \in missing : \A j \in missing : i <= j], "'">>)
        ELSE CASE tool_name = "eccomerce_search_aggregtor" -> eccomerce_search_aggregtor(params)
               [] tool_name = "shipping_time_estimator" -> shipping_time_estimator(params, today)
               [] tool_name = "discount_promo_checker" -> discount_promo_checker(params)
               [] tool_name = "return_policy_checker" -> return_policy_checker(params)
               [] tool_name = "competitor_price_comparison" ->
                    competitor_price_comparison(params)

\* a faulty variant: an exception of the tool is not caught and leaves execute_tools
ExecuteNoCatch(tool_name, params, today) ==
    IF tool_name \in tool_mapping
    THEN Let(CallTool(tool_name, params, today), LAMBDA r :
             [escaped |-> r.raised, result |-> r.out, clock |-> r.clock])
    ELSE [escaped |-> FALSE, result |-> <<"Unknown tool: ", tool_name>>, clock |-> FALSE]

\* execute_tools(tool_name, params): escaped tells whether an exception left it
execute_tools(tool_name, params, today) ==
    IF tool_name \in tool_mapping
    THEN Let(CallTool(tool_name, params, today), LAMBDA r :
             IF r.raised
             THEN [escaped |-> FALSE,
                   result |-> <<"Error executing ", tool_name, ":", " ">> \o r.out,
                   clock |-> r.clock]
             ELSE [escaped |-> FALSE, result |-> r.out, clock |-> r.clock])
    ELSE [escaped |-> FALSE, result |-> <<"Unknown tool: ", tool_name>>, clock |-> FALSE]


----------------------------------------------------------------------------
(* react_agent.py: call_llm and react_loop (react_selfcritic.py:           *)
(* reat_selfcritic_loop is the same code under another prompt)             *)

MAX_ITERATIONS == 5

\* the latest day number the clock reaches
MaxDay == 1

\* the longest text, in spans, given to the parser alone
MaxSegs == 2

ErrorText == <<"Error: Failed to get LLM response">>

\* str.strip()
RECURSIVE LStrip(_)
LStrip(s) == IF s # <<>> /\ Head(s) \in WS THEN LStrip(Tail(s)) ELSE s

RECURSIVE RStrip(_)
RStrip(s) == IF s # <<>> /\ s[Len(s)] \in WS THEN RStrip(SubSeq(s, 1, Len(s) - 1)) ELSE s

Strip(s) == RStrip(LStrip(s))

\* the user queries: one plain, one that quotes an action span
Queries == {<<"white", " ", "sneakers", " ", "by", " ", "friday">>,
            <<"run", " ">> \o SegText("multiline")}

\* message.content of the completions the model may give, as the spans they are written from
Contents == {<<"prose">>, <<"nl">>, <<>>, <<"tuple">>, <<"tricky">>, <<"unclosed", "search">>,
             <<"prose", "search", "ship", "multiline", "nl">>,
             <<"tuple", "unknown", "missing", "badtype", "nested">>}

\* call_llm's return for a completion: message.content.strip()
call_llm(content) == [none |-> FALSE, text |-> Strip(Flatten(content))]

\* call_llm's return when the client raises
None == [none |-> TRUE, text |-> <<>>]

\* `not llm_response`
Falsy(r) == r.none \/ r.text = <<>>

\* a faulty variant: the check of the response is left out
NeverNoResponse(r) == FALSE

\* line 231: if not llm_response
NoResponse(r) == Falsy(r)

\* a faulty variant: the calls are looked for in the whole transcript
CallsOfTranscript(context, response) == parse_tool_calls(context \o response)

\* line 235: tool_calls = parse_tool_calls(llm_response)
CallsOf(context, response) == parse_tool_calls(response)

\* line 241: the text one executed call adds to observations
ObservationOf(tool_name, params, result) ==
    <<"\nTool: ", tool_name, "\nParameters: ">> \o PyRepr(params)
    \o <<"\nObservation: ">> \o result \o <<"\n">>

\* a faulty variant: the newest observation is put first
AccumulateFront(obs, piece) == piece \o obs

\* line 241: observations += ...
Accumulate(obs, piece) == obs \o piece

\* a faulty variant: the transcript is rebuilt from the last round alone
RewriteContext(context, response, obs) ==
    <<"\nAssistant: ">> \o response \o <<"\nObservations: ">> \o obs \o <<"\n">>

\* line 245: conversation_context += ...
AppendContext(context, response, obs) ==
    context \o <<"\nAssistant: ">> \o response \o <<"\nObservations: ">> \o obs \o <<"\n">>

\* a faulty variant: one pass too many
BudgetLeftOffByOne(i) == i < MAX_ITERATIONS + 1

\* line 228: whether range(MAX_ITERATIONS) has a pass after pass i
BudgetLeft(i) == i < MAX_ITERATIONS

\* a faulty variant: nothing is returned when the budget is used up
BudgetReturnsNothing(response) == <<>>

\* line 252: what is returned when the budget is used up
BudgetReturn(response) == response

\* a faulty variant: the transcript is returned in place of the answer
FinalReturnsTranscript(context, response) == context

\* line 249: what is returned when the response asks for no tool
FinalReturn(context, response) == response

NoHist == [rounds |-> <<>>]

NoPrev == [valid |-> FALSE, query |-> <<>>, rounds |-> <<>>, context |-> <<>>,
           ret |-> <<>>, term |-> "none"]

\* the record of one round: what was sent, what came back, what was executed,
\* and whether the round's append was made
Round(sent, ok, content, response, at) ==
    [sent |-> sent, ok |-> ok, content |-> content, response |-> response,
     executed |-> <<>>, appended |-> FALSE, clock |-> at]

Clock == {[d |-> d, tod |-> x] : d \in 0..MaxDay, x \in {0, 1}}

\* the clock never runs back
Later(a, b) == b.d > a.d \/ (b.d = a.d /\ b.tod >= a.tod)

SeedContext(q) == <<"User Query: ">> \o q \o <<"\n">>

IdleTools == /\ probe = [kind |-> "none"]
             /\ outcome = [done |-> FALSE]

IdleParser == /\ text = <<>>
              /\ segs = <<>>
              /\ parsed = [done |-> FALSE, calls |-> <<>>]

\* react_loop(query) up to line 226
Init ==
    /\ query \in Queries
    /\ pc = "llm"
    /\ iter = 1
    /\ conversation_context = SeedContext(query)
    /\ llm_response = None
    /\ tool_calls = <<>>
    /\ idx = 1
    /\ observations = <<>>
    /\ ret = <<>>
    /\ term = "none"
    /\ now = [d |-> 0, tod |-> 0]
    /\ hist = NoHist
    /\ prev = NoPrev
    /\ IdleParser
    /\ IdleTools

\* a second run is given the completions of the first, as far as they go
Replays(ok, content) ==
    prev.valid /\ iter <= Len(prev.rounds) =>
        prev.rounds[iter].ok = ok /\ prev.rounds[iter].content = content

\* lines 230-236 for what call_llm returned: r, from the completion `content` (ok) or
\* from the client's exception (not ok)
Respond(r, ok, content) ==
    /\ Replays(ok, content)
    /\ llm_response' = r
    /\ hist' = [rounds |-> Append(hist.rounds,
                    Round(conversation_context, ok, content, r.text, now))]
    /\ IF NoResponse(r)
       THEN /\ pc' = "done"
            /\ term' = "error"
            /\ ret' = ErrorText
            /\ UNCHANGED <<tool_calls, idx, observations>>
       ELSE /\ tool_calls' = CallsOf(conversation_context, r.text)
            /\ observations' = <<>>
            /\ idx' = 1
            /\ pc' = IF tool_calls' = <<>> THEN "append" ELSE "exec"
            /\ UNCHANGED <<term, ret>>
    /\ UNCHANGED <<query, iter, conversation_context, now, prev, parseVars, toolVars>>

\* the client answers
CallLLMOk ==
    /\ pc = "llm"
    /\ \E content \in Contents : \E r \in {call_llm(content)} : Respond(r, TRUE, content)

\* the client raises: call_llm returns None
CallLLMFail ==
    /\ pc = "llm"
    /\ Respond(None, FALSE, <<>>)

\* lines 239-242: one pass of `for tool_name, params in tool_calls`
ExecTool ==
    /\ pc = "exec"
    /\ idx <= Len(tool_calls)
    /\ \E t \in {c \in Clock : Later(now, c)}, call \in {tool_calls[idx]},
          k \in {Len(hist.rounds)} :
        \E r \in {execute_tools(call.name, call.params, t)} :
            /\ r.clock \/ t = now
            /\ now' = t
            /\ hist' = [rounds |-> [hist.rounds EXCEPT ![k].executed =
                            Append(@, [name |-> call.name, params |-> call.params,
                                       result |-> r.result, escaped |-> r.escaped,
                                       at |-> t])]]
            /\ IF r.escaped
               THEN /\ pc' = "done"
                    /\ term' = "crash"
                    /\ UNCHANGED <<observations, idx>>
               ELSE /\ observations' =
                          Accumulate(observations,
                                     ObservationOf(call.name, call.params, r.result))
                    /\ idx' = idx + 1
                    /\ pc' = IF idx' > Len(tool_calls) THEN "append" ELSE "exec"
                    /\ UNCHANGED term
    /\ UNCHANGED <<query, iter, conversation_context, llm_response, tool_calls, ret, prev,
                   parseVars, toolVars>>

\* lines 245-252: the append, then the return or the next pass
AppendRound ==
    /\ pc = "append"
    /\ conversation_context' =
           AppendContext(conversation_context, llm_response.text, observations)
    /\ hist' = [rounds |-> [hist.rounds EXCEPT ![Len(hist.rounds)] =
                    [@ EXCEPT !.appended = TRUE]]]
    /\ IF tool_calls = <<>>
       THEN /\ pc' = "done"
            /\ term' = "final"
            /\ ret' = FinalReturn(conversation_context', llm_response.text)
            /\ iter' = iter
       ELSE IF BudgetLeft(iter)
       THEN /\ pc' = "llm"
            /\ iter' = iter + 1
            /\ UNCHANGED <<term, ret>>
       ELSE /\ pc' = "done"
            /\ term' = "budget"
            /\ ret' = BudgetReturn(llm_response.text)
            /\ iter' = iter
    /\ UNCHANGED <<query, llm_response, tool_calls, idx, observations, now, prev, parseVars,
                   toolVars>>

Next == CallLLMOk \/ CallLLMFail \/ ExecTool \/ AppendRound

Spec == Init /\ [][Next]_vars

\* the loop is sequential code: the step it stands at is taken
FairSpec == Spec /\ WF_vars(Next)

\* main(): the loop is called again; here with the same query, at a later time
Restart ==
    /\ pc = "done"
    /\ ~prev.valid
    /\ prev' = [valid |-> TRUE, query |-> query,
                rounds |-> [k \in 1..Len(hist.rounds) |->
                               [ok |-> hist.rounds[k].ok,
                                content |-> hist.rounds[k].content,
                                executed |-> hist.rounds[k].executed]],
                context |-> conversation_context, ret |-> ret, term |-> term]
    /\ \E t \in Clock : Later(now, t) /\ t # now /\ now' = t
    /\ pc' = "llm"
    /\ iter' = 1
    /\ conversation_context' = SeedContext(query)
    /\ llm_response' = None
    /\ tool_calls' = <<>>
    /\ idx' = 1
    /\ observations' = <<>>
    /\ ret' = <<>>
    /\ term' = "none"
    /\ hist' = NoHist
    /\ UNCHANGED <<query, parseVars, toolVars>>

NextTwice == Next \/ Restart

SpecTwice == Init /\ [][NextTwice]_vars

----------------------------------------------------------------------------
(* parse_tool_calls alone, on every text of up to MaxSegs spans *)

Texts == UNION {[1..n -> SegKinds] : n \in 0..MaxSegs}

InitParse ==
    /\ segs \in Texts
    /\ text = Flatten(segs)
    /\ parsed = [done |-> FALSE, calls |-> <<>>]
    /\ pc = "off"
    /\ query = <<>>
    /\ iter = 1
    /\ conversation_context = <<>>
    /\ llm_response = None
    /\ tool_calls = <<>>
    /\ idx = 1
    /\ observations = <<>>
    /\ ret = <<>>
    /\ term = "none"
    /\ now = [d |-> 0, tod |-> 0]
    /\ hist = NoHist
    /\ prev = NoPrev
    /\ IdleTools

Parse ==
    /\ ~parsed.done
    /\ pc = "off"
    /\ parsed' = [done |-> TRUE, calls |-> parse_tool_calls(text)]
    /\ UNCHANGED <<text, segs, loopVars, toolVars>>

NextParse == Parse

SpecParse == InitParse /\ [][NextParse]_vars

----------------------------------------------------------------------------
(* The tool functions alone, called as a Python caller calls them, and the  *)
(* feasibility calculation of shipping_time_estimator alone                *)

\* the days the clock is read on: the first week of 2026, 13, 15, 16 and 31 January,
\* 1 April and 16 December
ProbeDays == (0..6) \cup {12, 14, 15, 30, 90, 349}

Names == {Field(results[i], "name") : i \in 1..Len(results)}

StoreNames == {Str(<<"SiteA">>), Str(<<"SiteB">>), Str(<<"SiteC">>)}

ToolProbe(name, params) ==
    [kind |-> "tool", name |-> name, params |-> params, days_needed |-> 0, target |-> <<>>]

\* searches by price, alone or with one other filter
SearchProbes ==
    {ToolProbe("eccomerce_search_aggregtor", DictSet(o, <<"price_range">>, r)) :
        o \in {EmptyDict, Rec(<<"color">>, <<Str(<<"white">>)>>),
               Rec(<<"name">>, <<Str(<<"sneakers">>)>>),
               Rec(<<"store">>, <<Str(<<"SiteA">>)>>)},
        r \in {Str(<<"under", " ", "70">>), Str(<<"Under", " ", "40">>),
               Str(<<"between", " ", "40", " ", "and", " ", "70">>), Str(<<"cheap">>),
               Str(<<>>), VTuple(<<VInt(50), VInt(80)>>), VTuple(<<VInt(0), VInt(40)>>),
               VTuple(<<VInt(80), VInt(50)>>), VTuple(<<VFloat(4599), VInt(65)>>),
               VList(<<VInt(50), VInt(80)>>), VInt(70), VInt(55), VInt(0), VFloat(0),
               VFloat(4599)}}

ShippingProbes ==
    {ToolProbe("shipping_time_estimator", VDict(kv[1], kv[2])) :
        kv \in {<<<<<<"product_name">>>> \o t[1] \o z[1], <<n>> \o t[2] \o z[2]>> :
                   n \in Names,
                   t \in {<<<<>>, <<>>>>,
                           <<<<<<"delivery_target">>>>, <<Str(<<"friday">>)>>>>,
                           <<<<<<"delivery_target">>>>, <<Str(<<"Friday">>)>>>>},
                   z \in {<<<<>>, <<>>>>,
                           <<<<<<"zip_code">>>>, <<Str(<<"12345">>)>>>>,
                           <<<<<<"zip_code">>>>, <<Str(<<"99999">>)>>>>}}}

\* the stores, the products, and texts that are neither
PolicyProbes ==
    {ToolProbe("return_policy_checker", Rec(<<"store_name">>, <<x>>)) :
        x \in StoreNames \cup Names
              \cup {Str(<<"cocktail", " ", "dress">>), Str(<<"Dress">>), Str(<<>>),
                    Str(<<"sitea">>), Str(<<"nowhere">>)}}

\* the lead times of the catalog against the weekday names, in two letter cases, and
\* three ordinals
CalcProbes ==
    {[kind |-> "calc", name |-> "calculate_delivery_feasibility", params |-> EmptyDict,
      days_needed |-> n, target |-> t] :
        n \in 2..5,
        t \in {<<days[i]>> : i \in 1..7} \cup {<<DayNames[i]>> : i \in 1..7}
              \cup {<<"FRIDAY">>, <<"1st">>, <<"15th">>, <<"31st">>}}

InitTools ==
    /\ probe \in SearchProbes \cup ShippingProbes \cup PolicyProbes \cup CalcProbes
    /\ now \in IF probe.kind = "calc" \/ probe.name = "shipping_time_estimator"
               THEN {[d |-> d, tod |-> x] : d \in ProbeDays, x \in {0, 1}}
               ELSE {[d |-> 0, tod |-> 0]}
    /\ outcome = [done |-> FALSE]
    /\ pc = "off"
    /\ query = <<>>
    /\ iter = 1
    /\ conversation_context = <<>>
    /\ llm_response = None
    /\ tool_calls = <<>>
    /\ idx = 1
    /\ observations = <<>>
    /\ ret = <<>>
    /\ term = "none"
    /\ hist = NoHist
    /\ prev = NoPrev
    /\ IdleParser

\* tool(**params), outside execute_tools
CallDirect ==
    /\ probe.kind = "tool"
    /\ ~outcome.done
    /\ \E r \in {CallTool(probe.name, probe.params, now)} :
           outcome' = [done |-> TRUE, raised |-> r.raised, out |-> r.out, val |-> VNull]
    /\ UNCHANGED <<probe, loopVars, parseVars>>

\* calculate_delivery_feasibility(days_needed, target), as line 258 calls it
Feasibility ==
    /\ probe.kind = "calc"
    /\ ~outcome.done
    /\ \E v \in {calculate_delivery_feasibility(probe.days_needed, probe.target, now)} :
           outcome' = [done |-> TRUE, raised |-> FALSE, out |-> Dumps(v), val |-> v]
    /\ UNCHANGED <<probe, loopVars, parseVars>>

SpecTools == InitTools /\ [][CallDirect \/ Feasibility]_vars

----------------------------------------------------------------------------
(* The properties of the loop and of the parser *)

IsPrefix(a, b) == Len(a) <= Len(b) /\ SubSeq(b, 1, Len(a)) = a

\* the transcript as it stands after round k
Following(k) ==
    IF k < Len(hist.rounds) THEN hist.rounds[k + 1].sent ELSE conversation_context

\* the observation texts of the executed calls, in the order of their execution
RECURSIVE ObservationsOf(_)
ObservationsOf(executed) ==
    IF executed = <<>>
    THEN <<>>
    ELSE ObservationOf(Head(executed).name, Head(executed).params, Head(executed).result)
         \o ObservationsOf(Tail(executed))

\* the calls of the executed entries, and what each gave
CallsExecuted(executed) ==
    [i \in 1..Len(executed) |-> [name |-> executed[i].name, params |-> executed[i].params]]

Outcomes(executed) ==
    [i \in 1..Len(executed) |-> [name |-> executed[i].name, params |-> executed[i].params,
                                 result |-> executed[i].result]]

\* C1 as stated: a response in which the parser finds no call, the empty text included,
\* ends the run in its round: no tool is executed, no further model call is made, and
\* the text returned is that response's text, unchanged.
C1_NoCallReturnsResponse ==
    \A k \in 1..Len(hist.rounds) :
        LET r == hist.rounds[k]
        IN  r.ok /\ parse_tool_calls(r.response) = <<>> =>
                /\ k = Len(hist.rounds)
                /\ r.executed = <<>>
                /\ pc \in {"append", "done"}
                /\ (pc = "done" => ret = r.response)

\* C1, amended: a response in which the parser finds no call ends the run in its round
\* with no tool executed and no further model call; a non-empty one is the final answer,
\* returned unchanged, and an empty one is taken for a client failure and gives the
\* fixed error text, with nothing appended.
C1_NoCallEndsRun ==
    \A k \in 1..Len(hist.rounds) :
        LET r == hist.rounds[k]
        IN  r.ok /\ parse_tool_calls(r.response) = <<>> =>
                /\ k = Len(hist.rounds)
                /\ r.executed = <<>>
                /\ pc \in {"append", "done"}
                /\ r.response # <<>> /\ pc = "done" =>
                       /\ term = "final"
                       /\ ret = r.response
                       /\ r.appended
                /\ r.response = <<>> =>
                       /\ pc = "done"
                       /\ term = "error"
                       /\ ret = <<"Error: Failed to get LLM response">>
                       /\ ~r.appended
                       /\ conversation_context = r.sent

\* a third round whose response holds only a span with a malformed literal: the run
\* ends there and returns the response with its markup
C1_FinalInThirdRound ==
    /\ Len(hist.rounds) = 3
    /\ pc = "done"
    /\ term = "final"
    /\ hist.rounds[3].content = <<"tuple">>
    /\ hist.rounds[3].executed = <<>>
    /\ ret = Flatten(<<"tuple">>)

\* C2: at most MAX_ITERATIONS model calls are made; a run in which every round's
\* response holds a call the parser extracts ends after exactly MAX_ITERATIONS calls,
\* by the exhausted budget, and returns the text of the last response.
C2_BudgetOfFive ==
    /\ Len(hist.rounds) <= MAX_ITERATIONS
    /\ iter <= MAX_ITERATIONS
    /\ (term = "budget" => Len(hist.rounds) = MAX_ITERATIONS)
    /\ (/\ pc = "done"
        /\ \A k \in 1..Len(hist.rounds) :
              hist.rounds[k].ok /\ parse_tool_calls(hist.rounds[k].response) # <<>>)
       => /\ Len(hist.rounds) = MAX_ITERATIONS
          /\ term = "budget"
          /\ ret = hist.rounds[MAX_ITERATIONS].response
          /\ ret # <<"Error: Failed to get LLM response">>

\* a run ended by the budget whose fifth response differs from the fourth
C2_BudgetReached ==
    /\ pc = "done"
    /\ term = "budget"
    /\ Len(hist.rounds) = 5
    /\ hist.rounds[5].response # hist.rounds[4].response
    /\ ret = hist.rounds[5].response

\* C3: a failure of the completion client in round k ends the run at once with the
\* fixed error text: round k is the last, no tool is executed in it, and the transcript
\* is left as it was sent.
C3_ClientFailureIsTerminal ==
    \A k \in 1..Len(hist.rounds) :
        LET r == hist.rounds[k]
        IN  ~r.ok =>
                /\ k = Len(hist.rounds)
                /\ pc = "done"
                /\ term = "error"
                /\ ret = <<"Error: Failed to get LLM response">>
                /\ r.executed = <<>>
                /\ ~r.appended
                /\ conversation_context = r.sent

\* the client fails in the fifth round, after four rounds of executed tools
C3_FailsInLastRound ==
    /\ Len(hist.rounds) = 5
    /\ ~hist.rounds[5].ok
    /\ \A k \in 1..4 : hist.rounds[k].executed # <<>>
    /\ pc = "done"

\* C4: no exception leaves execute_tools: an unregistered name gives "Unknown tool:
\* <name>", a tool that raises gives "Error executing <name>: <cause>", the result
\* becomes an observation of the round, and the loop goes on with the next call and
\* the next round.
C4_ExecuteToolsNeverRaises ==
    /\ term # "crash"
    /\ \A k \in 1..Len(hist.rounds) :
          LET r == hist.rounds[k]
          IN  /\ \A i \in 1..Len(r.executed) :
                    LET e == r.executed[i]
                    IN  /\ ~e.escaped
                        /\ e.name \notin tool_mapping =>
                               e.result = <<"Unknown tool: ", e.name>>
                        /\ e.name \in tool_mapping /\ CallTool(e.name, e.params, e.at).raised
                               => e.result = <<"Error executing ", e.name, ":", " ">>
                                             \o CallTool(e.name, e.params, e.at).out
                        /\ (i < Len(r.executed) \/ r.appended \/ pc \in {"exec", "append"})
              /\ r.appended =>
                    /\ Len(r.executed) = Len(parse_tool_calls(r.response))
                    /\ IsPrefix(r.sent \o <<"\nAssistant: ">> \o r.response
                                \o <<"\nObservations: ">> \o ObservationsOf(r.executed),
                                Following(k))
              /\ r.appended /\ r.executed # <<>> /\ k < MAX_ITERATIONS =>
                    k < Len(hist.rounds) \/ pc = "llm"

\* a round whose calls named an unregistered tool, left out a required parameter, gave
\* a number for a name and gave an unexpected parameter, followed by another round
C4_ErrorsObserved ==
    /\ Len(hist.rounds) >= 2
    /\ hist.rounds[1].appended
    /\ Len(hist.rounds[1].executed) = 4
    /\ hist.rounds[1].executed[1].result = <<"Unknown tool: ", "price_tracker">>
    /\ hist.rounds[1].executed[2].result =
           <<"Error executing ", "shipping_time_estimator", ":", " ",
             "shipping_time_estimator", "() missing ", "1",
             " required positional argument: ", "'", "product_name", "'">>
    /\ hist.rounds[1].executed[3].result =
           <<"Error executing ", "eccomerce_search_aggregtor", ":", " ",
             "'", "int", "'", " object has no attribute ", "'", "lower", "'">>
    /\ hist.rounds[1].executed[4].result =
           <<"Error executing ", "eccomerce_search_aggregtor", ":", " ",
             "eccomerce_search_aggregtor", "() got an unexpected keyword argument ",
             "'", "filter", "'">>
    /\ hist.rounds[2].executed # <<>>

\* C5: a span with a malformed parameter literal is dropped alone: the calls of the
\* well-formed spans of the same text, before and after it, are all extracted. (Texts
\* with a closing marker inside a string are the subject of C6.)
C5_MalformedDroppedAlone ==
    /\ parsed.done
    /\ \E i \in 1..Len(segs) : segs[i] \in MalformedKinds
    /\ \A i \in 1..Len(segs) : segs[i] # "tricky"
    => parsed.calls = WellFormedCalls(segs)

\* C6: of a text of well-formed spans and prose, parse_tool_calls gives one call for
\* each span, in order, with the span's name and the mapping its object literal denotes.
C6_WellFormedParsedExactly ==
    /\ parsed.done
    /\ \A i \in 1..Len(segs) : segs[i] \in WellFormedKinds \cup ProseKinds
    => parsed.calls = WellFormedCalls(segs)

\* C7: the calls of a response are executed one after another in the order of their
\* spans in the text, the observations stand in the transcript in that order, and the
\* next model call is made only when all of them are executed and appended.
C7_SequentialOrder ==
    \A k \in 1..Len(hist.rounds) :
        LET r == hist.rounds[k]
            calls == parse_tool_calls(r.response)
        IN  r.ok =>
              /\ calls # <<>> => calls = WellFormedCalls(r.content)
              /\ Len(r.executed) <= Len(calls)
              /\ \A i \in 1..Len(r.executed) :
                    /\ r.executed[i].name = calls[i].name
                    /\ r.executed[i].params = calls[i].params
              /\ k < Len(hist.rounds) => r.appended
              /\ r.appended =>
                    /\ Len(r.executed) = Len(calls)
                    /\ Following(k) =
                           r.sent \o <<"\nAssistant: ">> \o r.response
                           \o <<"\nObservations: ">> \o ObservationsOf(r.executed)
                           \o <<"\n">>
              /\ ~r.appended /\ pc # "done" =>
                    /\ observations = ObservationsOf(r.executed)
                    /\ conversation_context = r.sent
                    /\ idx = Len(r.executed) + 1

\* a second model call made after the three calls of the first response were executed,
\* with three different observations in the transcript
C7_ThreeInOrder ==
    /\ Len(hist.rounds) = 2
    /\ Len(hist.rounds[1].executed) = 3
    /\ hist.rounds[1].executed[1].name = "eccomerce_search_aggregtor"
    /\ hist.rounds[1].executed[2].name = "shipping_time_estimator"
    /\ hist.rounds[1].executed[3].name = "return_policy_checker"
    /\ hist.rounds[1].executed[1].result # hist.rounds[1].executed[2].result
    /\ hist.rounds[1].executed[2].result # hist.rounds[1].executed[3].result
    /\ hist.rounds[2].sent # hist.rounds[1].sent

\* C8: the transcript only grows by appending: in every step the old transcript is a
\* prefix of the new one, which starts with the seeded query, and what is sent to model
\* call k+1 is what was sent to call k followed by response k and its observations.
C8_AppendOnly ==
    /\ [][/\ IsPrefix(conversation_context, conversation_context')
          /\ Len(conversation_context') >= Len(conversation_context)
          /\ IsPrefix(<<"User Query: ">> \o query \o <<"\n">>, conversation_context')
          /\ pc # "append" => conversation_context' = conversation_context]_vars
    /\ [](\A k \in 1..Len(hist.rounds) :
             /\ IsPrefix(<<"User Query: ">> \o query \o <<"\n">>, hist.rounds[k].sent)
             /\ k < Len(hist.rounds) =>
                   hist.rounds[k + 1].sent =
                       hist.rounds[k].sent \o <<"\nAssistant: ">> \o hist.rounds[k].response
                       \o <<"\nObservations: ">>
                       \o ObservationsOf(hist.rounds[k].executed) \o <<"\n">>)

\* three model calls, each sent a longer transcript than the one before
C8_ThreeTranscripts ==
    /\ Len(hist.rounds) = 3
    /\ Len(hist.rounds[1].sent) < Len(hist.rounds[2].sent)
    /\ Len(hist.rounds[2].sent) < Len(hist.rounds[3].sent)
    /\ hist.rounds[1].sent = <<"User Query: ">> \o query \o <<"\n">>

\* C9: the calls executed in round k are the calls parsed from response k, each once
\* and no other: a call that stands only in the query, in an earlier response or in an
\* observation is not executed.
C9_NoCallReplay ==
    /\ pc \in {"exec", "append"} => tool_calls = parse_tool_calls(llm_response.text)
    /\ \A k \in 1..Len(hist.rounds) :
          LET r == hist.rounds[k]
              calls == parse_tool_calls(r.response)
          IN  /\ IsPrefix(CallsExecuted(r.executed), calls)
              /\ r.appended => CallsExecuted(r.executed) = calls

\* the query quotes a span and the first response holds three calls; the second round
\* executes the four calls of the second response and none of those
C9_EarlierCallsInTranscript ==
    /\ query = <<"run", " ">> \o SegText("multiline")
    /\ Len(hist.rounds) = 2
    /\ Len(hist.rounds[1].executed) = 3
    /\ hist.rounds[2].appended
    /\ Len(hist.rounds[2].executed) = 4
    /\ \A i \in 1..4 : \A j \in 1..3 :
          CallsExecuted(hist.rounds[2].executed)[i] # CallsExecuted(hist.rounds[1].executed)[j]
    /\ \A i \in 1..4 : hist.rounds[2].executed[i].name # "return_policy_checker"

\* C10: a second run on the same query and the same model responses, failures
\* included, executes the same calls with the same parameters and results, appends the
\* same observations, and ends in the same way with the same text, whatever the time.
C10_Deterministic ==
    pc = "done" /\ prev.valid =>
        /\ query = prev.query
        /\ Len(hist.rounds) = Len(prev.rounds)
        /\ \A k \in 1..Len(hist.rounds) :
              /\ hist.rounds[k].ok = prev.rounds[k].ok
              /\ hist.rounds[k].content = prev.rounds[k].content
              /\ Outcomes(hist.rounds[k].executed) = Outcomes(prev.rounds[k].executed)
        /\ conversation_context = prev.context
        /\ term = prev.term
        /\ ret = prev.ret

\* a second run, on a later day, of shipping estimates followed by a client failure
C10_SecondRunLater ==
    /\ pc = "done"
    /\ prev.valid
    /\ now.d > 0
    /\ Len(hist.rounds) = 3
    /\ ~hist.rounds[3].ok
    /\ \E i \in 1..Len(hist.rounds[1].executed) :
          hist.rounds[1].executed[i].name = "shipping_time_estimator"
    /\ Len(hist.rounds[2].executed) = 4

----------------------------------------------------------------------------
(* Termination of the loop *)

\* the last round of the run
LastRound == hist.rounds[Len(hist.rounds)]

\* C11: every run ends, after at most MAX_ITERATIONS model calls, in exactly one of the
\* three terminal states, each told by its last round: the client error by a response
\* that is none or empty, the final answer by a response in which the parser found no
\* call, the exhausted budget by a fifth response in which it found some; the text returned is not empty, and no
\* exception leaves execute_tools or the parser on the way.
C11_TerminatesWithText ==
    /\ <>(pc = "done")
    /\ [](/\ Len(hist.rounds) <= MAX_ITERATIONS
          /\ term # "crash"
          /\ \A k \in 1..Len(hist.rounds) :
                 \A i \in 1..Len(hist.rounds[k].executed) :
                     ~hist.rounds[k].executed[i].escaped
          /\ pc = "done" =>
                 /\ hist.rounds # <<>>
                 /\ ret # <<>>
                 /\ term \in {"final", "budget", "error"}
                 /\ term = "error" <=> (~LastRound.ok \/ LastRound.response = <<>>)
                 /\ term = "final" <=>
                        /\ LastRound.ok
                        /\ LastRound.response # <<>>
                        /\ tool_calls = <<>>
                 /\ term = "budget" <=>
                        /\ LastRound.ok
                        /\ LastRound.response # <<>>
                        /\ tool_calls # <<>>
                        /\ Len(hist.rounds) = MAX_ITERATIONS)

\* a run ended by the budget in whose every round a span that does not parse, an
\* unknown tool, a missing argument and a wrong type were met
C11_BudgetAfterErrors ==
    /\ pc = "done"
    /\ term = "budget"
    /\ ret # <<>>
    /\ \A k \in 1..MAX_ITERATIONS :
           /\ hist.rounds[k].content = <<"tuple", "unknown", "missing", "badtype", "nested">>
           /\ Len(hist.rounds[k].executed) = 4

----------------------------------------------------------------------------
(* The properties of the tool functions *)

\* the mapping d without one key
Without(d, key) ==
    LET keep == SelectSeq([i \in 1..Len(d.keys) |-> i], LAMBDA i : d.keys[i] # key)
    IN  VDict([j \in 1..Len(keep) |-> d.keys[keep[j]]],
              [j \in 1..Len(keep) |-> d.items[keep[j]]])

\* the records of a list whose price lies in [lo, hi], in hundredths
InBounds(list, lo, hi) ==
    SelectSeq(list, LAMBDA p : /\ lo <= Hundredths(Field(p, "price"))
                               /\ Hundredths(Field(p, "price")) <= hi)

Searched == probe.kind = "tool" /\ probe.name = "eccomerce_search_aggregtor" /\ outcome.done

PriceArg == Field(probe.params, "price_range")

\* the search returned exactly the records the other filters pass whose price is in [lo, hi]
SearchGave(lo, hi) ==
    /\ ~outcome.raised
    /\ outcome.out =
           Dumps(VList(InBounds(Filter(Without(probe.params, <<"price_range">>), 1, <<>>).list,
                                lo, hi)))

\* the text "under N"
UnderN(v) == v.t = "str" /\ Len(v.s) = 3 /\ Lower(v.s)[1] = "under" /\ IsDigits(v.s[3])

\* C12: with price_range "under N" the search returns exactly the records passing the
\* other filters whose price is in [0, N], and with a range of two numbers (lo, hi)
\* exactly those whose price is in [lo, hi].
C12_PriceRangeExact ==
    Searched =>
        /\ UnderN(PriceArg) => SearchGave(0, NumVal[PriceArg.s[3]] * 100)
        /\ PriceArg.t = "tuple" /\ Len(PriceArg.items) = 2 =>
               SearchGave(Hundredths(PriceArg.items[1]), Hundredths(PriceArg.items[2]))

\* white products from 50 to 80: the three sneakers at 65, 55 and 65.0, and not the
\* pair at 45.99
C12_WhiteFiftyToEighty ==
    /\ Searched
    /\ probe.params = Rec(<<"color", "price_range">>,
                          <<Str(<<"white">>), VTuple(<<VInt(50), VInt(80)>>)>>)
    /\ outcome.out = Dumps(VList(<<results[2], results[6], results[8]>>))

\* C13: every accepted form of price_range filters by price: a bare number N, 0
\* included, as [0, N]; a list of two numbers, which is what a tool call's literal
\* decodes to, as [lo, hi]; a text with neither "under" nor "between" gives the empty
\* list.
C13_EveryFormFilters ==
    Searched =>
        /\ PriceArg.t \in {"int", "float"} => SearchGave(0, Hundredths(PriceArg))
        /\ PriceArg.t = "list" /\ Len(PriceArg.items) = 2 =>
               SearchGave(Hundredths(PriceArg.items[1]), Hundredths(PriceArg.items[2]))
        /\ (/\ PriceArg.t = "str"
            /\ ~InStr(<<"under">>, Lower(PriceArg.s))
            /\ ~InStr(<<"between">>, Lower(PriceArg.s))) =>
               ~outcome.raised /\ outcome.out = Dumps(VList(<<>>))

Estimated == probe.kind = "tool" /\ probe.name = "shipping_time_estimator" /\ outcome.done

\* the days from day d to the next day of weekday w (Monday 0) after it: 1 to 7
UntilNext(w, d) == IF w - WeekdayOf(d) <= 0 THEN w - WeekdayOf(d) + 7 ELSE w - WeekdayOf(d)

\* C14: for "White Sneakers" and the target "friday", on every day of the week, the
\* estimator returns no error but a result with can_deliver, which is true iff today
\* plus the two days of the product's store is on or before the upcoming Friday.
C14_FridayFeasible ==
    (/\ Estimated
     /\ probe.params = Rec(<<"product_name", "delivery_target">>,
                           <<Str(<<"White", " ", "Sneakers">>), Str(<<"friday">>)>>)) =>
        /\ ~outcome.raised
        /\ json_loads(outcome.out).ok
        /\ ~HasKey(json_loads(outcome.out).val, <<"error">>)
        /\ HasKey(json_loads(outcome.out).val, <<"can_deliver">>)
        /\ DictGet(json_loads(outcome.out).val, <<"can_deliver">>)
               = VBool(2 <= UntilNext(4, now.d))

Calculated == probe.kind = "calc" /\ outcome.done

\* C15: for each weekday name, in any letter case, and each current weekday, the
\* calculation gives no error: the requested date is the next day of that weekday
\* after today, 1 to 7 days ahead, and can_deliver tells whether the delivery day is
\* on or before it.
C15_WeekdayTargets ==
    (Calculated /\ \E i \in 1..7 : Lower(probe.target) = <<days[i]>>) =>
        LET w == (CHOOSE i \in 1..7 : Lower(probe.target) = <<days[i]>>) - 1
            until == UntilNext(w, now.d)
        IN  /\ ~HasKey(outcome.val, <<"error">>)
            /\ HasKey(outcome.val, <<"can_deliver">>)
            /\ Field(outcome.val, "can_deliver") = VBool(probe.days_needed <= until)
            /\ Field(outcome.val, "requested_date") = Str(Strftime(now.d + until))

\* the first day after day d whose day of the month is n
Soonest(n, d) ==
    CHOOSE x \in (d + 1)..(d + 62) :
        /\ DateOf(x).day = n
        /\ \A y \in (d + 1)..(x - 1) : DateOf(y).day # n

\* C16: for an ordinal target the requested date is the soonest date after today with
\* that day number, and can_deliver tells whether the delivery day is on or before it.
C16_OrdinalTargets ==
    (Calculated /\ probe.target \in {<<"1st">>, <<"15th">>, <<"31st">>}) =>
        LET date == Soonest(WordDigits(probe.target[1])[1], now.d)
        IN  /\ ~HasKey(outcome.val, <<"error">>)
            /\ HasKey(outcome.val, <<"can_deliver">>)
            /\ Field(outcome.val, "requested_date") = Str(Strftime(date))
            /\ Field(outcome.val, "can_deliver") = VBool(now.d + probe.days_needed <= date)

\* the catalog product of a name
Named(name) == results[CHOOSE i \in 1..Len(results) : Field(results[i], "name") = name]

\* C17: for every catalog product that has an entry for its store, the estimator,
\* called with no ZIP code or with one not listed for the store, returns the entry of
\* the store with its estimated_delivery and cost, and no error.
C17_StoreLevelFallback ==
    (/\ Estimated
     /\ ~HasKey(probe.params, <<"delivery_target">>)
     /\ HasKey(shipping_info, Field(probe.params, "product_name").s)) =>
        LET product == Named(Field(probe.params, "product_name"))
            entry == Field(DictGet(shipping_info, Field(product, "name").s),
                           Field(product, "store").s[1])
        IN  /\ ~outcome.raised
            /\ json_loads(outcome.out).ok
            /\ ~HasKey(json_loads(outcome.out).val, <<"error">>)
            /\ json_loads(outcome.out).val = entry

Asked == probe.kind = "tool" /\ probe.name = "return_policy_checker" /\ outcome.done

\* C18: the checker gives the policy of a known store; the policy of the store of the
\* product for a product name; and "Store not found" for any other input.
C18_PolicyOfStoreOrProduct ==
    Asked =>
        LET x == Field(probe.params, "store_name")
        IN  /\ ~outcome.raised
            /\ x \in StoreNames => outcome.out = Dumps(DictGet(policies, x.s))
            /\ x \in Names =>
                   outcome.out = Dumps(DictGet(policies, Field(Named(x), "store").s))
            /\ x \notin StoreNames \cup Names => outcome.out = Dumps(StoreNotFound)

\* C20: for the exact name of a catalog product the estimator gives what lines 180 to
\* 263 give for that very product.
C20_ExactNameResolves ==
    Estimated =>
        LET r == ShippingOf(Named(Field(probe.params, "product_name")),
                            Arg(probe.params, "delivery_target"),
                            Arg(probe.params, "zip_code"), now)
        IN  outcome.raised = r.raised /\ outcome.out = r.out

----------------------------------------------------------------------------
(* Responses whose spans do not decode *)

\* the spans of a text whose literal json.loads decodes
Decodable(t) == SelectSeq(FindAll(t, 1), LAMBDA m : json_loads(m.params).ok)

\* C19: a round whose response has spans of which none decodes executes no tool and
\* ends the run with the response as it is, markup included, as the final answer; a
\* round whose response has a span that decodes executes the calls of the spans that
\* decode, those only and in order, and the loop goes on to the next model call or
\* stops at the budget.
C19_UndecodableIsFinal ==
    \A k \in 1..Len(hist.rounds) :
        LET r == hist.rounds[k]
        IN  r.ok /\ FindAll(r.response, 1) # <<>> =>
                IF Decodable(r.response) = <<>>
                THEN /\ k = Len(hist.rounds)
                     /\ r.executed = <<>>
                     /\ pc \in {"append", "done"}
                     /\ pc = "done" =>
                            /\ term = "final"
                            /\ ret = r.response
                            /\ \E i \in 1..Len(ret) : ret[i] = "CALL"
                ELSE /\ Len(r.executed) <= Len(Decodable(r.response))
                     /\ \A i \in 1..Len(r.executed) :
                            /\ r.executed[i].name = Decodable(r.response)[i].name
                            /\ r.executed[i].params
                                   = json_loads(Decodable(r.response)[i].params).val
                     /\ r.appended => Len(r.executed) = Len(Decodable(r.response))
                     /\ k = Len(hist.rounds) => term \in {"none", "budget"}
                     /\ k = Len(hist.rounds) /\ term = "budget" => k = MAX_ITERATIONS

\* a round with one span that does not decode before four that do, followed by a round
\* whose text the pattern takes for one span, which does not decode: four calls
\* executed, then the final answer
C19_MixedThenUndecodable ==
    /\ Len(hist.rounds) = 2
    /\ hist.rounds[1].content = <<"tuple", "unknown", "missing", "badtype", "nested">>
    /\ Len(hist.rounds[1].executed) = 4
    /\ hist.rounds[2].content = <<"unclosed", "search">>
    /\ hist.rounds[2].executed = <<>>
    /\ pc = "done"
    /\ term = "final"
    /\ ret = Flatten(<<"unclosed", "search">>)

====
